---- MODULE Spec2Model ----
(***************************************************************************)
(* Point-charge field / force evaluators of trabalho1_campos.py,           *)
(* trabalho2_forcas.py and the third script (src/unnamed/part_000).        *)
(*                                                                         *)
(* Arithmetic is exact.  Lengths are integers in units of 0.005 m, charges *)
(* are integers in microcoulomb, and a field / force / potential value is  *)
(* a normalised rational <<n, d>> that multiplies the script's Coulomb     *)
(* constant (K_E or k_e) and the unit factors.  Positions are drawn from   *)
(* sets in which every distance between a query point and a charge is a    *)
(* whole number of length units, so that np.linalg.norm is computed        *)
(* exactly.  Floating-point rounding is not modelled.                      *)
(***************************************************************************)
EXTENDS Integers, Sequences, FiniteSets, TLC

VARIABLES
    posicao, q_teste, cargas,           \* inputs of the evaluators
    chamada,                            \* the evaluator that was called
    E, V, forcas, forca_resultante,     \* what the evaluators returned
    pc, excecao,                        \* position of a script run, exception raised
    tracador, sementes, semente,        \* field-line loop: script, batch size, next seed
    linhas, falhadas,                   \* traces added to fig, seeds whose solve raised
    amostras, rhs,                      \* one line: its samples, last right-hand side
    campo_grid, energia_total, fatia,   \* energy estimate: field, result, passes done
    pagina, session_cargas, widgets,    \* reruns: script, st.session_state, widget values
    registo                             \* the registry the computation has read

vars == <<posicao, q_teste, cargas, chamada, E, V, forcas, forca_resultante,
          pc, excecao, tracador, sementes, semente, linhas, falhadas,
          amostras, rhs, campo_grid, energia_total, fatia,
          pagina, session_cargas, widgets, registo>>

avaliacao == <<chamada, E, V, forcas, forca_resultante>>

execucao == <<pc, excecao>>

lote == <<tracador, sementes, semente, linhas, falhadas>>

traco == <<amostras, rhs>>

energia == <<campo_grid, energia_total, fatia>>

reruns == <<pagina, session_cargas, widgets, registo>>

outros == <<traco, energia, reruns>>

----------------------------------------------------------------------------
(* Bounds and program constants *)

MaxCargas == 2          \* longest charge list drawn in Init
MaxDist == 200          \* largest distance (length units) Norm looks for

GuardCampo == 10        \* 0.05 m, trabalho1_campos.py line 89
GuardForca == 2         \* 0.01 m, trabalho2_forcas.py lines 59-60
GuardEIndDen == 500000  \* 1e-8 m = 1/500000 length unit, part_000 line 60

K_E == 8988             \* 8.9875517923e9 * 1e-6, rounded; trabalho1_campos.py line 8
k_e == 8990             \* 8.99e9 * 1e-6; part_000 line 8

----------------------------------------------------------------------------
(* Exact rationals: <<n, d>> with d > 0 and gcd(n, d) = 1 *)

Abs(x) == IF x < 0 THEN -x ELSE x

RECURSIVE GCD(_, _)
GCD(a, b) == IF b = 0 THEN a ELSE GCD(b, a % b)

Rat(n, d) ==
    LET g == GCD(Abs(n), Abs(d))
        s == IF d < 0 THEN -1 ELSE 1
    IN  <<(s * n) \div g, (s * d) \div g>>

RInt(n) == <<n, 1>>

RAdd(a, b) ==
    LET g == GCD(a[2], b[2])
    IN  Rat(a[1] * (b[2] \div g) + b[1] * (a[2] \div g), (a[2] \div g) * b[2])

RMul(a, b) ==
    LET g1 == GCD(Abs(a[1]), b[2])
        g2 == GCD(Abs(b[1]), a[2])
    IN  Rat((a[1] \div g1) * (b[1] \div g2), (a[2] \div g2) * (b[2] \div g1))

RNeg(a) == <<-a[1], a[2]>>

RAbs(a) == <<Abs(a[1]), a[2]>>

----------------------------------------------------------------------------
(* numpy values: a 3-vector (ndarray of shape (3,)) or a Python scalar *)

Vec(a, b, c) == [shape |-> "vec3", x |-> <<a, b, c>>]

Scalar(a) == [shape |-> "scalar", x |-> <<a>>]

Zeros3 == Vec(RInt(0), RInt(0), RInt(0))

\* a + b with numpy broadcasting of a scalar operand
NpAdd(a, b) ==
    IF a.shape = "vec3" /\ b.shape = "vec3"
    THEN [shape |-> "vec3", x |-> [i \in 1..3 |-> RAdd(a.x[i], b.x[i])]]
    ELSE IF a.shape = "vec3"
    THEN [shape |-> "vec3", x |-> [i \in 1..3 |-> RAdd(a.x[i], b.x[1])]]
    ELSE IF b.shape = "vec3"
    THEN [shape |-> "vec3", x |-> [i \in 1..3 |-> RAdd(a.x[1], b.x[i])]]
    ELSE Scalar(RAdd(a.x[1], b.x[1]))

\* s * a for a rational s
NpScale(s, a) == [shape |-> a.shape, x |-> [i \in DOMAIN a.x |-> RMul(s, a.x[i])]]

\* np.dot(v, v) = np.linalg.norm(v)**2 of a 3-vector
Norma2(v) ==
    RAdd(RMul(v.x[1], v.x[1]), RAdd(RMul(v.x[2], v.x[2]), RMul(v.x[3], v.x[3])))

\* v / sqrt(n2): a 3-vector divided by the square root of a positive rational,
\* kept as the pair so that no irrational number is ever rounded
Dividido(v, n2) == [num |-> v, den2 |-> n2]

\* the list [0, 0, 0] as a right-hand side
RhsZero == Dividido(Zeros3, RInt(1))

\* an integer coordinate triple as an ndarray
NpArray(p) == Vec(RInt(p[1]), RInt(p[2]), RInt(p[3]))

\* pos - carga['pos'] on coordinate triples
VSub(p, c) == <<p[1] - c[1], p[2] - c[2], p[3] - c[3]>>

\* np.linalg.norm of a coordinate triple (exact on the position sets)
Norm(v) ==
    LET n2 == v[1] * v[1] + v[2] * v[2] + v[3] * v[3]
    IN  CHOOSE k \in 0..MaxDist : k * k = n2

----------------------------------------------------------------------------
(* trabalho1_campos.py : calcular_campo_eletrico *)

\* variant: divides by distancia**2
TermoCampo_Quadrado(q, distancia, vetor_r) ==
    NpScale(Rat(q, distancia * distancia), NpArray(vetor_r))

\* line 92 : (K_E * carga['q'] / distancia**3) * vetor_r
TermoCampo(q, distancia, vetor_r) ==
    NpScale(Rat(q, distancia * distancia * distancia), NpArray(vetor_r))

\* variant: a charge within the guard discards the whole sum
campo_passo_Zera(acc, pos, carga) ==
    LET vetor_r == VSub(pos, carga.pos)
        distancia == Norm(vetor_r)
    IN  IF distancia < GuardCampo
        THEN Zeros3
        ELSE NpAdd(acc, TermoCampo(carga.q, distancia, vetor_r))

\* variant: E = term instead of E += term
campo_passo_Atribui(acc, pos, carga) ==
    LET vetor_r == VSub(pos, carga.pos)
        distancia == Norm(vetor_r)
    IN  IF distancia < GuardCampo
        THEN acc
        ELSE TermoCampo(carga.q, distancia, vetor_r)

\* lines 86-92 : one iteration of the loop over cargas
campo_passo(acc, pos, carga) ==
    LET vetor_r == VSub(pos, carga.pos)
        distancia == Norm(vetor_r)
    IN  IF distancia < GuardCampo
        THEN acc
        ELSE NpAdd(acc, TermoCampo(carga.q, distancia, vetor_r))

RECURSIVE campo_loop(_, _, _, _)
campo_loop(acc, pos, cs, i) ==
    IF i > Len(cs) THEN acc
    ELSE campo_loop(campo_passo(acc, pos, cs[i]), pos, cs, i + 1)

calcular_campo_eletrico(pos, cs) == campo_loop(Zeros3, pos, cs, 1)

----------------------------------------------------------------------------
(* part_000 : e_individual, e_total, potential *)

\* line 60 : r < 1e-8
MuitoPerto(r) == r * GuardEIndDen < 1

\* variant: divides by r**2
e_individual_Quadrado(pos, charge) ==
    LET r_vec == VSub(pos, charge.pos)
        r == Norm(r_vec)
    IN  IF MuitoPerto(r)
        THEN Zeros3
        ELSE NpScale(Rat(charge.q, r * r), NpArray(r_vec))

\* lines 57-62
e_individual(pos, charge) ==
    LET r_vec == VSub(pos, charge.pos)
        r == Norm(r_vec)
    IN  IF MuitoPerto(r)
        THEN Zeros3
        ELSE NpScale(Rat(charge.q, r * r * r), NpArray(r_vec))

\* Python's sum(): starts from the int 0 and adds the items left to right
RECURSIVE py_sum(_, _, _, _)
py_sum(acc, pos, cs, i) ==
    IF i > Len(cs) THEN acc
    ELSE py_sum(NpAdd(acc, e_individual(pos, cs[i])), pos, cs, i + 1)

e_total(pos, cs) == py_sum(Scalar(RInt(0)), pos, cs, 1)

RECURSIVE potential_loop(_, _, _, _)
potential_loop(acc, pos, cs, i) ==
    IF i > Len(cs) THEN acc
    ELSE LET r == Norm(VSub(pos, cs[i].pos))
         IN  IF MuitoPerto(r)
             THEN potential_loop(acc, pos, cs, i + 1)
             ELSE potential_loop(NpAdd(acc, Scalar(Rat(cs[i].q, r))), pos, cs, i + 1)

potential(pos, cs) == potential_loop(Scalar(RInt(0)), pos, cs, 1)

----------------------------------------------------------------------------
(* trabalho2_forcas.py : calcular_forca_coulomb *)

\* lines 59-60 : the distance after the clamp
Clamp(distancia) == IF distancia < GuardForca THEN GuardForca ELSE distancia

\* variant: the repulsive branch is taken for every pair
forca_par_SemSinal(qt, pos_teste, carga) ==
    LET vetor_r == VSub(pos_teste, carga.pos)
        distancia == Clamp(Norm(vetor_r))
        vetor_unitario == NpScale(Rat(1, distancia), NpArray(vetor_r))
        magnitude == Rat(Abs(qt * carga.q), distancia * distancia)
    IN  [origem |-> carga.nome, vetor |-> NpScale(magnitude, vetor_unitario),
         magnitude |-> magnitude]

\* variant: the test of the sign is reversed
forca_par_Invertida(qt, pos_teste, carga) ==
    LET vetor_r == VSub(pos_teste, carga.pos)
        distancia == Clamp(Norm(vetor_r))
        vetor_unitario == NpScale(Rat(1, distancia), NpArray(vetor_r))
        magnitude == Rat(Abs(qt * carga.q), distancia * distancia)
        vetor_forca == IF qt * carga.q < 0
                       THEN NpScale(magnitude, vetor_unitario)
                       ELSE NpScale(RNeg(magnitude), vetor_unitario)
    IN  [origem |-> carga.nome, vetor |-> vetor_forca, magnitude |-> magnitude]

\* lines 56-74 : the record appended for one fixed charge
forca_par(qt, pos_teste, carga) ==
    LET vetor_r == VSub(pos_teste, carga.pos)
        distancia == Clamp(Norm(vetor_r))
        vetor_unitario == NpScale(Rat(1, distancia), NpArray(vetor_r))
        magnitude == Rat(Abs(qt * carga.q), distancia * distancia)
        vetor_forca == IF qt * carga.q > 0
                       THEN NpScale(magnitude, vetor_unitario)
                       ELSE NpScale(RNeg(magnitude), vetor_unitario)
    IN  [origem |-> carga.nome, vetor |-> vetor_forca, magnitude |-> magnitude]

RECURSIVE forca_loop(_, _, _, _, _)
forca_loop(fs, res, qt, pos_teste, cs) ==
    IF Len(fs) = Len(cs) THEN <<fs, res>>
    ELSE LET f == forca_par(qt, pos_teste, cs[Len(fs) + 1])
         IN  forca_loop(Append(fs, f), NpAdd(res, f.vetor), qt, pos_teste, cs)

\* variant: the records are collected in reverse order
calcular_forca_coulomb_Invertida(qt, pos_teste, cs) ==
    LET r == forca_loop(<<>>, Zeros3, qt, pos_teste, cs)
        n == Len(r[1])
        invertida == [i \in 1..n |-> r[1][(n + 1) - i]]
    IN  <<invertida, r[2]>>

calcular_forca_coulomb(qt, pos_teste, cs) ==
    forca_loop(<<>>, Zeros3, qt, pos_teste, cs)

----------------------------------------------------------------------------
(* Inputs of the evaluators *)

Origem == <<0, 0, 0>>

\* query points and charge positions of the general configurations
Pontos == {Origem, <<6, 0, 0>>}

Posicoes ==
    {Origem, <<1, 0, 0>>, <<3, 4, 0>>, <<6, 0, 8>>, <<0, 8, 0>>, <<-10, 0, 0>>}

Valores == {-2, 0, 1}       \* charge values in microcoulomb

DipoloD == {1, 5, 10, 100}  \* half-separations of the dipoles on the x axis

RaioR == {1, 2, 9, 10, 11, 100}   \* abscissae of the single-charge queries

\* the charge at index i of a list carries the ordinal label of the sidebars
\* ('id': i+1 in trabalho1, 'nome': f"Q{i+1}" in trabalho2)
Rotular(l) == [i \in DOMAIN l |-> [q |-> l[i][1], pos |-> l[i][2], nome |-> i]]

ListasAte(n) == UNION {[1..k -> Valores \X Posicoes] : k \in 0..n}

ConfigGeral ==
    {[posicao |-> p, cargas |-> Rotular(l)] : p \in Pontos, l \in ListasAte(MaxCargas)}

ConfigDipolo ==
    {[posicao |-> Origem,
      cargas |-> Rotular(<< <<q, <<-d, 0, 0>> >>, <<-q, <<d, 0, 0>> >> >>)] :
        d \in DipoloD, q \in {1, 2}}

ConfigUnica ==
    {[posicao |-> <<r, 0, 0>>, cargas |-> Rotular(<< <<q, Origem>> >>)] :
        r \in RaioR, q \in {1, 2}}

Configuracoes == ConfigGeral \cup ConfigDipolo \cup ConfigUnica

\* the state of the parts a specification does not exercise
OutrosParados ==
    /\ amostras = <<>>
    /\ rhs = RhsZero
    /\ campo_grid = <<0, 0, 0, 0>>
    /\ energia_total = RInt(0)
    /\ fatia = 0
    /\ pagina = "nenhum"
    /\ session_cargas = <<>>
    /\ widgets = <<>>
    /\ registo = <<>>

----------------------------------------------------------------------------
(* Evaluator calls *)

Init ==
    /\ \E c \in Configuracoes : posicao = c.posicao /\ cargas = c.cargas
    /\ q_teste = 0
    /\ chamada = "nenhuma"
    /\ E = Zeros3
    /\ V = Scalar(RInt(0))
    /\ forcas = <<>>
    /\ forca_resultante = Zeros3
    /\ pc = "parado"
    /\ excecao = "nenhuma"
    /\ tracador = "nenhum"
    /\ sementes = 0
    /\ semente = 1
    /\ linhas = <<>>
    /\ falhadas = {}
    /\ OutrosParados

Chamar_calcular_campo_eletrico ==
    /\ chamada = "nenhuma"
    /\ chamada' = "calcular_campo_eletrico"
    /\ E' = calcular_campo_eletrico(posicao, cargas)
    /\ UNCHANGED <<posicao, q_teste, cargas, V, forcas, forca_resultante, execucao, lote, outros>>

Chamar_e_total ==
    /\ chamada = "nenhuma"
    /\ chamada' = "e_total"
    /\ E' = e_total(posicao, cargas)
    /\ UNCHANGED <<posicao, q_teste, cargas, V, forcas, forca_resultante, execucao, lote, outros>>

Chamar_potential ==
    /\ chamada = "nenhuma"
    /\ chamada' = "potential"
    /\ V' = potential(posicao, cargas)
    /\ UNCHANGED <<posicao, q_teste, cargas, E, forcas, forca_resultante, execucao, lote, outros>>

Chamar_calcular_forca_coulomb ==
    /\ chamada = "nenhuma"
    /\ chamada' = "calcular_forca_coulomb"
    /\ \E qt \in Valores :
          /\ q_teste' = qt
          /\ LET r == calcular_forca_coulomb(qt, posicao, cargas)
             IN  forcas' = r[1] /\ forca_resultante' = r[2]
    /\ UNCHANGED <<posicao, cargas, E, V, execucao, lote, outros>>

Next ==
    \/ Chamar_calcular_campo_eletrico
    \/ Chamar_e_total
    \/ Chamar_potential
    \/ Chamar_calcular_forca_coulomb

Spec == Init /\ [][Next]_vars

----------------------------------------------------------------------------
(* A run of the third script (part_000), block by block *)

\* def e_total(pos, charges), part_000 line 64
e_total_params == <<"pos", "charges">>

\* a call of e_total binds its positional arguments to the parameters;
\* Python raises TypeError when a required one is missing
ChamadaValida(args) == Len(args) = Len(e_total_params)

\* the top-level blocks after the sidebar, in program order
Blocos == <<"energia", "linhas", "E_grid", "render">>

\* the argument lists each block passes to e_total
\*   line 81  : e_total(p) for p in points_energy
\*   line 98  : e_total(r) inside ode, no try around solve_ivp
\*   line 106 : e_total(p) for p in points_v[::4]
ChamadasDe(bloco) ==
    IF bloco = "energia" THEN {<<"p">>}
    ELSE IF bloco = "linhas" THEN {<<"r">>}
    ELSE IF bloco = "E_grid" THEN {<<"p">>}
    ELSE {}

\* the block raises when one of its calls does
BlocoLevanta(bloco) == \E args \in ChamadasDe(bloco) : ~ChamadaValida(args)

Seguinte(bloco) ==
    IF bloco = Blocos[Len(Blocos)] THEN "fim"
    ELSE Blocos[(CHOOSE k \in DOMAIN Blocos : Blocos[k] = bloco) + 1]

\* charge lists the sidebar of part_000 can build: at least one charge,
\* magnitude at least 0.1 uC
ListasSidebar ==
    {l \in ListasAte(MaxCargas) : Len(l) >= 1 /\ \A i \in DOMAIN l : l[i][1] # 0}

InitRun ==
    /\ posicao = Origem
    /\ q_teste = 0
    /\ cargas = <<>>
    /\ chamada = "nenhuma"
    /\ E = Zeros3
    /\ V = Scalar(RInt(0))
    /\ forcas = <<>>
    /\ forca_resultante = Zeros3
    /\ pc = "sidebar"
    /\ excecao = "nenhuma"
    /\ tracador = "nenhum"
    /\ sementes = 0
    /\ semente = 1
    /\ linhas = <<>>
    /\ falhadas = {}
    /\ OutrosParados

\* lines 28-54 : the controls supply the charge list
Sidebar ==
    /\ pc = "sidebar"
    /\ \E l \in ListasSidebar : cargas' = Rotular(l)
    /\ pc' = Blocos[1]
    /\ UNCHANGED <<posicao, q_teste, avaliacao, excecao, lote, outros>>

\* lines 77-144 : the next block runs; an exception raised by one of its
\* calls is caught nowhere and ends the run
ExecutarBloco ==
    /\ pc \in {Blocos[k] : k \in DOMAIN Blocos}
    /\ IF BlocoLevanta(pc)
       THEN pc' = "fatal" /\ excecao' = "TypeError"
       ELSE pc' = Seguinte(pc) /\ excecao' = excecao
    /\ UNCHANGED <<posicao, q_teste, cargas, avaliacao, lote, outros>>

NextRun == Sidebar \/ ExecutarBloco

SpecRun == InitRun /\ [][NextRun]_vars

----------------------------------------------------------------------------
(* The field-line loops *)

n_linhas == 12          \* trabalho1_campos.py line 266

MaxFalhas == 2          \* solver failures the environment injects in a batch

NumLines == {10, 11}    \* num_lines of part_000 (slider, line 43)

\* the charge lists of a batch: the loop's control flow reads only the sign
\* of each charge, so every charge stays at the default position of its slot
\* (trabalho1 line 132: x = i*1.5 - 1.5 m)
ListasLote ==
    UNION {{[k \in 1..n |-> <<v[k], <<300 * k - 600, 0, 0>> >>] : v \in [1..n -> Valores]} :
              n \in 1..MaxCargas}

Positivas(cs) == {i \in DOMAIN cs : cs[i].q > 0}

\* the right-hand side evaluated by solve_ivp raises when its call of the
\* field evaluator is malformed
\*   trabalho1 line 275 : calcular_campo_eletrico(pos, cargas)
\*   part_000  line 98  : e_total(r)
LadoDireitoLevanta(script) ==
    IF script = "part_000" THEN BlocoLevanta("linhas") ELSE FALSE

InitLote ==
    /\ posicao = Origem
    /\ q_teste = 0
    /\ \E l \in ListasLote : cargas = Rotular(l)
    /\ chamada = "nenhuma"
    /\ E = Zeros3
    /\ V = Scalar(RInt(0))
    /\ forcas = <<>>
    /\ forca_resultante = Zeros3
    /\ pc = "linhas"
    /\ excecao = "nenhuma"
    /\ tracador \in {"trabalho1", "part_000"}
    /\ sementes \in IF tracador = "trabalho1"
                    THEN {n_linhas * Cardinality(Positivas(cargas))}
                    ELSE NumLines
    /\ semente = 1
    /\ linhas = <<>>
    /\ falhadas = {}
    /\ OutrosParados

\* one iteration: solve_ivp for the next seed, then fig.add_trace
\*   trabalho1 lines 279-298 : try / except: pass
\*   part_000  lines 101-103 : no handler
IntegrarSemente ==
    /\ pc = "linhas"
    /\ semente <= sementes
    /\ \E falha \in BOOLEAN :
          /\ falha => Cardinality(falhadas) < MaxFalhas
          /\ IF ~falha /\ ~LadoDireitoLevanta(tracador)
             THEN /\ linhas' = Append(linhas, semente)
                  /\ semente' = semente + 1
                  /\ UNCHANGED <<falhadas, pc, excecao>>
             ELSE IF tracador = "trabalho1"
             THEN /\ falhadas' = falhadas \cup {semente}
                  /\ semente' = semente + 1
                  /\ UNCHANGED <<linhas, pc, excecao>>
             ELSE /\ falhadas' = falhadas \cup {semente}
                  /\ pc' = "fatal"
                  /\ excecao' = "propagada"
                  /\ UNCHANGED <<linhas, semente>>
    /\ UNCHANGED <<posicao, q_teste, cargas, avaliacao, tracador, sementes, outros>>

\* the loop has gone through every seed
TerminarLote ==
    /\ pc = "linhas"
    /\ semente > sementes
    /\ pc' = "fim"
    /\ UNCHANGED <<posicao, q_teste, cargas, avaliacao, excecao, lote, outros>>

NextLote == IntegrarSemente \/ TerminarLote

SpecLote == InitLote /\ [][NextLote]_vars

----------------------------------------------------------------------------
(* One field line: the right-hand side and the integrator *)

MaxAmostras == 3        \* samples of a line after the seed

\* norma > 1e-6 (trabalho1 line 277) and norm > 1e-8 (part_000 line 100), on
\* the square of the norm.  n2 multiplies (K_E * 1e-6 C / (0.005 m)^2)^2, about
\* 1.3e17 (N/C)^2, and its denominator is below 2^31: a non-zero n2 is above
\* 4e-10 and so above both thresholds, a zero n2 is above neither.
AcimaDoLimiar(n2) == n2[1] >= 1

\* trabalho1 lines 274-277
equacao_diferencial(pos, cs) ==
    LET campo == calcular_campo_eletrico(pos, cs)
        norma2 == Norma2(campo)
    IN  IF AcimaDoLimiar(norma2) THEN Dividido(campo, norma2) ELSE RhsZero

\* part_000 lines 97-100, for a call of e_total that binds its arguments
ode(r, cs) ==
    LET campo == NpAdd(Zeros3, e_total(r, cs))
        norma2 == Norma2(campo)
    IN  IF AcimaDoLimiar(norma2) THEN Dividido(campo, norma2) ELSE RhsZero

\* one step of solve_ivp's explicit Runge-Kutta scheme from y: every stage is
\* f(y + h * (a combination of the earlier stages)), so when f(y) is the zero
\* vector all stages are f(y) = 0 and the step returns y; otherwise the step
\* lands on another point (destino)
PassoRK(y, f_y, destino) == IF f_y.num = Zeros3 THEN y ELSE destino

InitTraco ==
    /\ \E l \in ListasAte(MaxCargas) : Len(l) >= 1 /\ cargas = Rotular(l)
    /\ posicao \in Pontos
    /\ q_teste = 0
    /\ chamada = "nenhuma"
    /\ E = Zeros3
    /\ V = Scalar(RInt(0))
    /\ forcas = <<>>
    /\ forca_resultante = Zeros3
    /\ pc = "rhs"
    /\ excecao = "nenhuma"
    /\ tracador \in {"trabalho1", "part_000"}
    /\ sementes = 1
    /\ semente = 1
    /\ linhas = <<>>
    /\ falhadas = {}
    /\ amostras = <<posicao>>
    /\ rhs = RhsZero
    /\ campo_grid = <<0, 0, 0, 0>>
    /\ energia_total = RInt(0)
    /\ fatia = 0
    /\ pagina = "nenhum"
    /\ session_cargas = <<>>
    /\ widgets = <<>>
    /\ registo = <<>>

\* solve_ivp evaluates the right-hand side at the current point
\*   trabalho1 line 275 : calcular_campo_eletrico(pos, cargas), inside try
\*   part_000  line 98  : e_total(r), no handler
AvaliarLadoDireito ==
    /\ pc = "rhs"
    /\ Len(amostras) <= MaxAmostras
    /\ IF LadoDireitoLevanta(tracador)
       THEN /\ pc' = "fatal"
            /\ excecao' = "TypeError"
            /\ rhs' = rhs
       ELSE /\ pc' = "passo"
            /\ excecao' = excecao
            /\ rhs' = IF tracador = "trabalho1"
                      THEN equacao_diferencial(posicao, cargas)
                      ELSE ode(posicao, cargas)
    /\ UNCHANGED <<posicao, q_teste, cargas, avaliacao, lote, amostras, energia, reruns>>

\* the integrator advances to the next sample
Avancar ==
    /\ pc = "passo"
    /\ \E destino \in Pontos :
          /\ posicao' = PassoRK(posicao, rhs, destino)
          /\ amostras' = Append(amostras, posicao')
    /\ pc' = "rhs"
    /\ UNCHANGED <<q_teste, cargas, avaliacao, excecao, lote, rhs, energia, reruns>>

\* t_eval is exhausted: solve_ivp returns and the line is added to fig
Devolver ==
    /\ pc = "rhs"
    /\ Len(amostras) > MaxAmostras
    /\ linhas' = Append(linhas, amostras)
    /\ pc' = "fim"
    /\ UNCHANGED <<posicao, q_teste, cargas, avaliacao, excecao, tracador, sementes,
                   semente, falhadas, traco, energia, reruns>>

NextTraco == AvaliarLadoDireito \/ Avancar \/ Devolver

SpecTraco == InitTraco /\ [][NextTraco]_vars

----------------------------------------------------------------------------
(* The energy estimate *)

Cubo(r) == RMul(r, RMul(r, r))

\* np.linspace(start, stop, num): start + k * (stop - start) / (num - 1)
linspace(start, stop, num) ==
    [k \in 1..num |-> RAdd(RInt(start), RMul(RInt(k - 1), Rat(stop - start, num - 1)))]

\* trabalho1 line 189
pontos_amostra == linspace(-2, 2, 8)

\* variant: the sum of the components instead of the sum of their products
np_dot_SemProduto(u, v) == RAdd(u.x[1], RAdd(u.x[2], u.x[3]))

\* np.dot of two 3-vectors
np_dot(u, v) ==
    RAdd(RMul(u.x[1], v.x[1]), RAdd(RMul(u.x[2], v.x[2]), RMul(u.x[3], v.x[3])))

\* variant: the cell of a grid with 8 intervals per axis
fator_volume_Oito == Cubo(Rat(4, 8))

\* trabalho1 line 198: (4/7)**3
fator_volume == Cubo(Rat(4, 7))

\* part_000 lines 77, 78 and 82
grid_size_energy == 20
x_range == linspace(-2, 2, grid_size_energy)
dV == Cubo(Rat(4, grid_size_energy - 1))

\* The field sampled on the grid.  The distances from the grid points
\* (multiples of 4/7 m) to the charges are irrational, and the estimate
\* depends on the charges only through the 512 vectors that
\* calcular_campo_eletrico returns, so the samples stand for the charges:
\* g = <<a, b, c, o>> gives E(x, y, z) = (7ax + o, 7by, 7cz), a finite vector
\* at every point as the guarded evaluator returns.
Declives == {-1, 0, 1}
Desvios == {-1, 0, 2}
CampoAmostrado(g, x, y, z) ==
    Vec(RAdd(RMul(RInt(7 * g[1]), x), RInt(g[4])),
        RMul(RInt(7 * g[2]), y), RMul(RInt(7 * g[3]), z))

\* trabalho1 lines 193-196: energia_total after the first k passes of the
\* innermost loop, entered with energia_total = acc
RECURSIVE energia_z(_, _, _, _, _)
energia_z(acc, g, x, y, k) ==
    IF k = 0 THEN acc
    ELSE LET campo == CampoAmostrado(g, x, y, pontos_amostra[k])
         IN  RAdd(energia_z(acc, g, x, y, k - 1), np_dot(campo, campo))

InitEnergia ==
    /\ cargas = <<>>
    /\ posicao = Origem
    /\ q_teste = 0
    /\ chamada = "nenhuma"
    /\ E = Zeros3
    /\ V = Scalar(RInt(0))
    /\ forcas = <<>>
    /\ forca_resultante = Zeros3
    /\ pc = "energia"
    /\ excecao = "nenhuma"
    /\ tracador = "trabalho1"
    /\ sementes = 0
    /\ semente = 1
    /\ linhas = <<>>
    /\ falhadas = {}
    /\ amostras = <<>>
    /\ rhs = RhsZero
    /\ campo_grid \in Declives \X Declives \X Declives \X Desvios
    /\ energia_total = RInt(0)
    /\ fatia = 0
    /\ pagina = "trabalho1"
    /\ session_cargas = <<>>
    /\ widgets = <<>>
    /\ registo = <<>>

\* trabalho1 lines 191-196: one pass of the loop over y (the loop over z
\* inside it); fatia counts the passes done, 8 for each x
Somar_fatia ==
    /\ pc = "energia"
    /\ fatia < Len(pontos_amostra) * Len(pontos_amostra)
    /\ LET x == pontos_amostra[(fatia \div Len(pontos_amostra)) + 1]
           y == pontos_amostra[(fatia % Len(pontos_amostra)) + 1]
       IN  energia_total' = energia_z(energia_total, campo_grid, x, y,
                                      Len(pontos_amostra))
    /\ fatia' = fatia + 1
    /\ UNCHANGED <<posicao, q_teste, cargas, avaliacao, pc, excecao, lote, traco,
                   campo_grid, reruns>>

\* trabalho1 line 198; energia_total multiplies EPSILON_0
Multiplicar_fator ==
    /\ pc = "energia"
    /\ fatia = Len(pontos_amostra) * Len(pontos_amostra)
    /\ energia_total' = RMul(energia_total, RMul(Rat(1, 2), fator_volume))
    /\ pc' = "metricas"
    /\ UNCHANGED <<posicao, q_teste, cargas, avaliacao, excecao, lote, traco,
                   campo_grid, fatia, reruns>>

NextEnergia == Somar_fatia \/ Multiplicar_fator

SpecEnergia == InitEnergia /\ [][NextEnergia]_vars

----------------------------------------------------------------------------
(* Reruns of trabalho1_campos.py and trabalho2_forcas.py: the charge registry *)

\* what the charge widgets can hold in one run: num_cargas >= 1 slots, each
\* with a value and a position
ListasWidgets ==
    UNION {[1..n -> Valores \X Pontos] : n \in 1..MaxCargas}

\* the widgets' defaults (trabalho2 lines 131-153): two charges of opposite
\* sign at two places
WidgetsPadrao == << <<1, Origem>>, <<-2, <<6, 0, 0>> >> >>

\* variant: the list starts from what the previous run left in session_state
lista_inicial_Anterior == IF session_cargas = "ausente" THEN <<>> ELSE session_cargas

\* trabalho1 line 109: cargas = [] ; trabalho2 line 139: cargas_fixas = []
lista_inicial == <<>>

\* trabalho1 lines 112-146, trabalho2 lines 140-165: one append for each i in
\* range(n), labelled i+1 ('id': i+1, 'nome': f"Q{i+1}")
RECURSIVE registo_loop(_, _, _)
registo_loop(lista, w, i) ==
    IF i = Len(w) THEN lista
    ELSE registo_loop(Append(lista, [q |-> w[i + 1][1], pos |-> w[i + 1][2],
                                     nome |-> i + 1]), w, i + 1)

InitRegisto ==
    /\ posicao = Origem
    /\ q_teste = 0
    /\ cargas = <<>>
    /\ chamada = "nenhuma"
    /\ E = Zeros3
    /\ V = Scalar(RInt(0))
    /\ forcas = <<>>
    /\ forca_resultante = Zeros3
    /\ pc = "inicio"
    /\ excecao = "nenhuma"
    /\ tracador = "trabalho1"
    /\ sementes = 0
    /\ semente = 1
    /\ linhas = <<>>
    /\ falhadas = {}
    /\ amostras = <<>>
    /\ rhs = RhsZero
    /\ campo_grid = <<0, 0, 0, 0>>
    /\ energia_total = RInt(0)
    /\ fatia = 0
    /\ pagina \in {"trabalho1", "trabalho2"}
    /\ session_cargas = "ausente"
    /\ widgets \in ListasWidgets
    /\ registo = <<>>

\* trabalho2 lines 86-87: if 'cargas_fixas' not in st.session_state
\* (trabalho1 keeps nothing in st.session_state)
Inicializar ==
    /\ pc = "inicio"
    /\ session_cargas' = IF pagina = "trabalho2" /\ session_cargas = "ausente"
                         THEN <<>> ELSE session_cargas
    /\ pc' = "sidebar"
    /\ UNCHANGED <<posicao, q_teste, cargas, avaliacao, excecao, lote, traco,
                   energia, pagina, widgets, registo>>

\* trabalho1 lines 109-146 ; trabalho2 lines 139-167, where the list is also
\* stored: st.session_state.cargas_fixas = cargas_fixas
ConstruirRegisto ==
    /\ pc = "sidebar"
    /\ cargas' = registo_loop(lista_inicial, widgets, 0)
    /\ session_cargas' = IF pagina = "trabalho2" THEN cargas' ELSE session_cargas
    /\ pc' = "botao"
    /\ UNCHANGED <<posicao, q_teste, avaliacao, excecao, lote, traco, energia,
                   pagina, widgets, registo>>

\* trabalho2 lines 197-199: the button clears session_state (the widget
\* values with it) and reruns; trabalho1 lines 180-181: the button reruns
Resetar ==
    /\ pc = "botao"
    /\ IF pagina = "trabalho2"
       THEN /\ session_cargas' = "ausente"
            /\ widgets' = WidgetsPadrao
       ELSE UNCHANGED <<session_cargas, widgets>>
    /\ cargas' = <<>>
    /\ pc' = "inicio"
    /\ UNCHANGED <<posicao, q_teste, avaliacao, excecao, lote, traco, energia,
                   pagina, registo>>

\* the button was not pressed; the computation reads the registry
\*   trabalho1 line 185 on : cargas
\*   trabalho2 line 208    : cargas_fixas = st.session_state.cargas_fixas
LerRegisto ==
    /\ pc = "botao"
    /\ registo' = IF pagina = "trabalho2" THEN session_cargas ELSE cargas
    /\ pc' = "espera"
    /\ UNCHANGED <<posicao, q_teste, cargas, avaliacao, excecao, lote, traco,
                   energia, pagina, session_cargas, widgets>>

\* the user changes a widget: Streamlit runs the script again from the top,
\* with a fresh namespace and the same st.session_state
Interagir ==
    /\ pc = "espera"
    /\ widgets' \in ListasWidgets
    /\ cargas' = <<>>
    /\ pc' = "inicio"
    /\ UNCHANGED <<posicao, q_teste, avaliacao, excecao, lote, traco, energia,
                   pagina, session_cargas, registo>>

NextRegisto == Inicializar \/ ConstruirRegisto \/ Resetar \/ LerRegisto \/ Interagir

SpecRegisto == InitRegisto /\ [][NextRegisto]_vars

----------------------------------------------------------------------------
(* Vocabulary of the properties *)

\* the Coulomb term of one charge at a point it does not coincide with
TermoCoulomb(pos, carga) ==
    LET d == VSub(pos, carga.pos)
        n == Norm(d)
    IN  Vec(Rat(carga.q * d[1], n * n * n), Rat(carga.q * d[2], n * n * n),
            Rat(carga.q * d[3], n * n * n))

\* the superposition of the Coulomb terms of a list of charges
RECURSIVE Superposicao(_, _)
Superposicao(pos, cs) ==
    IF cs = <<>> THEN Zeros3
    ELSE NpAdd(TermoCoulomb(pos, Head(cs)), Superposicao(pos, Tail(cs)))

Dist(pos, carga) == Norm(VSub(pos, carga.pos))

RemoveAt(cs, i) == [j \in 1..(Len(cs) - 1) |-> IF j < i THEN cs[j] ELSE cs[j + 1]]

Prefixo(cs, k) == [j \in 1..k |-> cs[j]]

Sufixo(cs, k) == [j \in 1..(Len(cs) - k) |-> cs[j + k]]

Permutacoes(cs) ==
    {[j \in DOMAIN cs |-> cs[f[j]]] :
        f \in {g \in [DOMAIN cs -> DOMAIN cs] : \A a, b \in DOMAIN cs : g[a] = g[b] => a = b}}

Sinal(n) == IF n > 0 THEN 1 ELSE IF n < 0 THEN -1 ELSE 0

\* a dipole +q at (-d,0,0), -q at (d,0,0) queried at the origin
EhDipolo ==
    /\ posicao = Origem
    /\ Len(cargas) = 2
    /\ cargas[1].q > 0
    /\ cargas[2].q = -cargas[1].q
    /\ cargas[2].pos[1] > 0
    /\ cargas[2].pos = <<cargas[2].pos[1], 0, 0>>
    /\ cargas[1].pos = <<-cargas[2].pos[1], 0, 0>>

DipoloQ == cargas[1].q

DipoloDist == cargas[2].pos[1]

\* a single positive charge at the origin queried at (r,0,0), r > 0
EhCargaUnica ==
    /\ Len(cargas) = 1
    /\ cargas[1].q > 0
    /\ cargas[1].pos = Origem
    /\ posicao[1] > 0
    /\ posicao = <<posicao[1], 0, 0>>

\* a field component in N/C, rounded down: the component multiplies
\* k * 1e-6 C / (0.005 m)^2 = kMicro * 40000, kMicro being k * 1e-6 rounded
EmNewtonPorCoulomb(r, kMicro) == (r[1] * 40000 * kMicro) \div r[2]

----------------------------------------------------------------------------
(* Properties *)

DipoloDeclarado == Vec(Rat(-2 * DipoloQ, DipoloDist * DipoloDist), RInt(0), RInt(0))

DipoloEsperado == Vec(Rat(2 * DipoloQ, DipoloDist * DipoloDist), RInt(0), RInt(0))

\* C1 as stated: for a symmetric dipole +q at (-d,0,0), -q at (d,0,0) with d
\* not below the evaluator's guard, calcular_campo_eletrico and e_total return
\* (-2*k*q/d^2, 0, 0) at the origin, directed along -x.
C1_Original ==
    /\ (chamada = "calcular_campo_eletrico" /\ EhDipolo /\ DipoloDist >= GuardCampo)
          => E = DipoloDeclarado
    /\ (chamada = "e_total" /\ EhDipolo)
          => E = DipoloDeclarado

\* C1 amended: for a symmetric dipole +q at (-d,0,0), -q at (d,0,0) with d
\* not below the evaluator's guard, calcular_campo_eletrico and e_total return
\* (+2*k*q/d^2, 0, 0) at the origin, directed along +x (away from the positive
\* charge, toward the negative one); for q = 1 uC and d = 0.5 m the x
\* component is positive and rounds to 7.19e4 N/C.
C1_Dipolo ==
    /\ (chamada = "calcular_campo_eletrico" /\ EhDipolo /\ DipoloDist >= GuardCampo)
          => /\ E = DipoloEsperado
             /\ (DipoloQ = 1 /\ DipoloDist = 100)
                   => /\ E.x[1][1] > 0
                      /\ EmNewtonPorCoulomb(E.x[1], K_E) \in 71850..71949
    /\ (chamada = "e_total" /\ EhDipolo)
          => /\ E = DipoloEsperado
             /\ (DipoloQ = 1 /\ DipoloDist = 100)
                   => /\ E.x[1][1] > 0
                      /\ EmNewtonPorCoulomb(E.x[1], k_e) \in 71850..71949

C1_Witness ==
    /\ chamada = "calcular_campo_eletrico"
    /\ EhDipolo /\ DipoloQ = 1 /\ DipoloDist = 100
    /\ E = Vec(<<1, 5000>>, RInt(0), RInt(0))

\* C2 as stated: for every point, test charge and charge list the resultant
\* of calcular_forca_coulomb equals q_teste times calcular_campo_eletrico,
\* also when the point lies within the singularity guard of a charge.
C2_Original ==
    chamada = "calcular_forca_coulomb"
        => forca_resultante
             = NpScale(RInt(q_teste), calcular_campo_eletrico(posicao, cargas))

ForaDasGuardas ==
    \A i \in DOMAIN cargas :
        Dist(posicao, cargas[i]) >= GuardCampo \/ Dist(posicao, cargas[i]) = 0

\* C2 amended: the resultant of calcular_forca_coulomb equals q_teste times
\* calcular_campo_eletrico whenever every charge is at least 0.05 m from the
\* point or exactly at it.
C2_ForcaCampo ==
    (chamada = "calcular_forca_coulomb" /\ ForaDasGuardas)
        => forca_resultante
             = NpScale(RInt(q_teste), calcular_campo_eletrico(posicao, cargas))

C2_Witness ==
    /\ chamada = "calcular_forca_coulomb"
    /\ ForaDasGuardas
    /\ Len(cargas) = 2
    /\ q_teste # 0
    /\ \E i \in DOMAIN cargas : Dist(posicao, cargas[i]) = 0
    /\ forca_resultante # Zeros3

NaoGuardadas1 == SelectSeq(cargas, LAMBDA c : Dist(posicao, c) >= GuardCampo)

NaoGuardadas0 == SelectSeq(cargas, LAMBDA c : ~MuitoPerto(Dist(posicao, c)))

\* C5: when the query point is within the guard of a charge, the evaluator
\* drops only that charge's term: the result is the field of the list without
\* that charge, i.e. the superposition of the Coulomb terms of the charges
\* that are not within the guard.
C5_SoATermo ==
    /\ chamada = "calcular_campo_eletrico"
          => \A i \in DOMAIN cargas :
                Dist(posicao, cargas[i]) < GuardCampo
                   => /\ E = Superposicao(posicao, NaoGuardadas1)
                      /\ E = calcular_campo_eletrico(posicao, RemoveAt(cargas, i))
    /\ chamada = "e_total"
          => \A i \in DOMAIN cargas :
                MuitoPerto(Dist(posicao, cargas[i]))
                   => /\ E = Superposicao(posicao, NaoGuardadas0)
                      /\ E = NpAdd(Zeros3, e_total(posicao, RemoveAt(cargas, i)))

C5_Witness ==
    /\ chamada = "calcular_campo_eletrico"
    /\ Len(cargas) = 2
    /\ Dist(posicao, cargas[2]) \in 1..(GuardCampo - 1)
    /\ Dist(posicao, cargas[1]) >= GuardCampo
    /\ cargas[2].q # 0
    /\ E = TermoCoulomb(posicao, cargas[1])
    /\ E # Zeros3

\* C7: superposition is linear: the evaluator applied to the concatenation of
\* two lists returns the component-wise sum of its results on the two lists,
\* and the result does not depend on the order of the charges.
C7_Linear ==
    /\ chamada = "calcular_campo_eletrico"
          => /\ \A k \in 0..Len(cargas) :
                   E = NpAdd(calcular_campo_eletrico(posicao, Prefixo(cargas, k)),
                             calcular_campo_eletrico(posicao, Sufixo(cargas, k)))
             /\ \A p \in Permutacoes(cargas) : E = calcular_campo_eletrico(posicao, p)
    /\ chamada = "e_total"
          => /\ \A k \in 0..Len(cargas) :
                   E = NpAdd(e_total(posicao, Prefixo(cargas, k)),
                             e_total(posicao, Sufixo(cargas, k)))
             /\ \A p \in Permutacoes(cargas) : E = e_total(posicao, p)

C7_Witness ==
    /\ chamada = "calcular_campo_eletrico"
    /\ Len(cargas) = 2
    /\ calcular_campo_eletrico(posicao, Prefixo(cargas, 1)) # Zeros3
    /\ calcular_campo_eletrico(posicao, Sufixo(cargas, 1)) # Zeros3
    /\ E # calcular_campo_eletrico(posicao, Prefixo(cargas, 1))
    /\ E # calcular_campo_eletrico(posicao, Sufixo(cargas, 1))

UnicaEsperado == Vec(Rat(cargas[1].q, posicao[1] * posicao[1]), RInt(0), RInt(0))

\* C8 as stated: for a single positive charge at the origin and every r above
\* 1e-8 m the evaluator returns at (r,0,0) a vector of magnitude k*q/r^2 along
\* +x, never a zero field.
C8_Original ==
    (chamada \in {"calcular_campo_eletrico", "e_total"} /\ EhCargaUnica)
        => E = UnicaEsperado

\* C8 amended: for a single positive charge at the origin and every r not
\* below the evaluator's own guard (0.05 m in calcular_campo_eletrico, 1e-8 m
\* in e_individual) the evaluator returns (k*q/r^2, 0, 0) at (r,0,0).
C8_CargaUnica ==
    /\ (chamada = "calcular_campo_eletrico" /\ EhCargaUnica /\ posicao[1] >= GuardCampo)
          => E = UnicaEsperado
    /\ (chamada = "e_total" /\ EhCargaUnica /\ ~MuitoPerto(posicao[1]))
          => E = UnicaEsperado

C8_Witness ==
    /\ chamada = "calcular_campo_eletrico"
    /\ EhCargaUnica
    /\ posicao[1] = GuardCampo + 1
    /\ E.x[1][1] > 0

ParalelaA(v, r) ==
    /\ RMul(v.x[1], RInt(r[2])) = RMul(v.x[2], RInt(r[1]))
    /\ RMul(v.x[1], RInt(r[3])) = RMul(v.x[3], RInt(r[1]))
    /\ RMul(v.x[2], RInt(r[3])) = RMul(v.x[3], RInt(r[2]))

\* v = c * r for some c > 0 (s = 1) or some c < 0 (s = -1)
Multiplo(v, r, s) ==
    /\ ParalelaA(v, r)
    /\ \A j \in 1..3 : Sinal(v.x[j][1]) = s * Sinal(r[j])

\* C9: every pair follows Coulomb's sign convention: for q_teste*q > 0 the
\* pair's force is a positive multiple of pos_teste - pos, for q_teste*q < 0 a
\* negative multiple, and for a zero charge it is the zero vector.
C9_Sinal ==
    chamada = "calcular_forca_coulomb"
        => \A i \in DOMAIN cargas :
              LET r == VSub(posicao, cargas[i].pos)
                  p == q_teste * cargas[i].q
              IN  /\ p > 0 => Multiplo(forcas[i].vetor, r, 1)
                  /\ p < 0 => Multiplo(forcas[i].vetor, r, -1)
                  /\ p = 0 => forcas[i].vetor = Zeros3

C9_Witness ==
    /\ chamada = "calcular_forca_coulomb"
    /\ Len(cargas) = 2
    /\ q_teste * cargas[1].q > 0
    /\ q_teste * cargas[2].q < 0
    /\ forcas[1].vetor # Zeros3
    /\ forcas[2].vetor # Zeros3

NormaQuadrada(v) ==
    RAdd(RMul(v.x[1], v.x[1]), RAdd(RMul(v.x[2], v.x[2]), RMul(v.x[3], v.x[3])))

\* C6: when the test point is closer than 0.01 m to a fixed charge, the force
\* vector of that pair has norm K_E*|q_teste*q|/0.01^2 and lies along the line
\* joining the charge and the test point, also when the two coincide.
C6_Clamp ==
    chamada = "calcular_forca_coulomb"
        => \A i \in DOMAIN cargas :
              Dist(posicao, cargas[i]) < GuardForca
                 => LET m == Rat(Abs(q_teste * cargas[i].q), GuardForca * GuardForca)
                    IN  /\ NormaQuadrada(forcas[i].vetor) = RMul(m, m)
                        /\ ParalelaA(forcas[i].vetor, VSub(posicao, cargas[i].pos))

\* C10: with an empty charge list calcular_campo_eletrico and e_total return
\* the zero 3-vector, potential returns the scalar 0 and
\* calcular_forca_coulomb returns an empty list and a zero 3-vector.
C10_ListaVazia ==
    Len(cargas) = 0
        => /\ chamada = "calcular_campo_eletrico" => E = Zeros3
           /\ chamada = "e_total" => E = Zeros3
           /\ chamada = "potential" => V = Scalar(RInt(0))
           /\ chamada = "calcular_forca_coulomb"
                 => forcas = <<>> /\ forca_resultante = Zeros3

\* C3: a full recomputation of part_000 never ends in a fatal error: for
\* every charge list of the controls the energy estimate, the field lines and
\* the grid samples are computed and the run reaches the rendering step, every
\* call of e_total being well-formed.
C3_SemErroFatal == pc # "fatal" /\ excecao = "nenhuma"

\* C4: in a batch of seeds, a seed whose integration fails is skipped and
\* every other seed of the batch still gets its line; the failure never
\* leaves the loop, in trabalho1_campos.py and in part_000 alike.
C4_FalhaNaoPropaga ==
    /\ excecao = "nenhuma"
    /\ pc # "fatal"
    /\ pc = "fim" => {linhas[k] : k \in DOMAIN linhas} = (1..sementes) \ falhadas

\* the right-hand side is the zero vector where |E| is not above the
\* threshold and a vector of norm 1 elsewhere
ZeroOuUnitario(f, campo) ==
    IF AcimaDoLimiar(Norma2(campo))
    THEN f.num # Zeros3 /\ Norma2(f.num) = f.den2
    ELSE f = RhsZero

\* C11: in the line tracers the right-hand side is the zero vector wherever
\* |E| is not above the threshold and has norm 1 elsewhere; once a line
\* reaches a point where it is zero every later sample is that point; no
\* error is raised and the line is returned.
C11_Degenerado ==
    /\ excecao = "nenhuma" /\ pc # "fatal"
    /\ pc = "passo"
          => ZeroOuUnitario(rhs, IF tracador = "trabalho1"
                                 THEN calcular_campo_eletrico(posicao, cargas)
                                 ELSE NpAdd(Zeros3, e_total(posicao, cargas)))
    /\ tracador = "trabalho1"
          => \A k \in 1..(Len(amostras) - 1) :
                calcular_campo_eletrico(amostras[k], cargas) = Zeros3
                   => \A j \in k..Len(amostras) : amostras[j] = amostras[k]
    /\ pc = "fim" => linhas = <<amostras>>

\* the grid points, as index triples
Grelha == (1..Len(pontos_amostra)) \X (1..Len(pontos_amostra)) \X (1..Len(pontos_amostra))

\* |E|^2 at a grid point
ModuloQuadrado(g, t) ==
    Norma2(CampoAmostrado(g, pontos_amostra[t[1]], pontos_amostra[t[2]],
                          pontos_amostra[t[3]]))

\* the sum of a sequence of rationals
RECURSIVE SomaSeq(_)
SomaSeq(s) == IF s = <<>> THEN RInt(0) ELSE RAdd(s[1], SomaSeq(Tail(s)))

\* the sum of |E|^2 over the grid points
SomaModulos(g) ==
    LET n == Len(pontos_amostra)
    IN  SomaSeq([i \in 1..n |->
           SomaSeq([j \in 1..n |->
              SomaSeq([k \in 1..n |-> ModuloQuadrado(g, <<i, j, k>>)])])])

\* (L/(n-1))^3 of a grid given as the sequence of its coordinates on one axis
ElementoDeVolume(eixo) ==
    LET L == RAdd(eixo[Len(eixo)], RNeg(eixo[1]))
    IN  Cubo(RMul(L, Rat(1, Len(eixo) - 1)))

\* C13: the energy estimate is the sum of |E|^2 over the grid points times
\* epsilon_0/2 times the volume element (L/(n-1))^3 of the sampled grid:
\* (4/7)^3 for linspace(-2, 2, 8) in trabalho1_campos.py, and dV for
\* linspace(-2, 2, 20) in part_000.
C13_ElementoDeVolume ==
    /\ pc = "metricas"
          => energia_total = RMul(SomaModulos(campo_grid),
                                  RMul(Rat(1, 2), ElementoDeVolume(pontos_amostra)))
    /\ dV = ElementoDeVolume(x_range)

C13_Witness ==
    /\ pc = "metricas"
    /\ campo_grid[1] # 0
    /\ energia_total[1] > 0

C15_GuardaUnica ==
    chamada # "nenhuma"
        => \A i \in DOMAIN cargas :
              LET d == Dist(posicao, cargas[i])
              IN  /\ (d < GuardCampo) = (d < GuardForca)
                  /\ (d < GuardCampo) = MuitoPerto(d)

\* the registry that the current widget values describe
RegistoAtual ==
    [i \in DOMAIN widgets |-> [q |-> widgets[i][1], pos |-> widgets[i][2], nome |-> i]]

\* C16: every run rebuilds the charge registry from the current inputs: after
\* any sequence of runs the list built by the sidebar and the list read by the
\* computation hold exactly the selected number of charges, labelled 1..n in
\* order, with the current values, and nothing of an earlier run; in
\* trabalho2_forcas.py the computation reads the list the sidebar has stored.
C16_Reconstruido ==
    /\ pc = "botao"
          => /\ cargas = RegistoAtual
             /\ pagina = "trabalho2" => session_cargas = cargas
    /\ pc = "espera"
          => /\ registo = RegistoAtual
             /\ Len(registo) = Len(widgets)
             /\ \A i \in DOMAIN registo : registo[i].nome = i
             /\ registo = cargas

\* the previous run read two charges, this run's sidebar has built one
C16_Witness ==
    /\ pagina = "trabalho2"
    /\ pc = "botao"
    /\ Len(registo) = 2
    /\ Len(cargas) = 1
    /\ cargas[1] # registo[1]

\* component k of the sum of the 'vetor' fields of a list of records
SomaVetores(fs, k) == SomaSeq([i \in 1..Len(fs) |-> fs[i].vetor.x[k]])

RegistosEResultante ==
    chamada = "calcular_forca_coulomb"
        => /\ Len(forcas) = Len(cargas)
           /\ \A i \in DOMAIN forcas : forcas[i].origem = cargas[i].nome
           /\ forca_resultante.shape = "vec3"
           /\ \A k \in 1..3 : forca_resultante.x[k] = SomaVetores(forcas, k)
           /\ cargas = <<>> => forca_resultante = Zeros3

\* C17: calcular_forca_coulomb returns one record for each fixed charge, in
\* the order of the list and labelled with the charge's name; the resultant is
\* the component-wise sum of the records' 'vetor' fields, the zero vector for
\* an empty list; the call leaves pos_teste and cargas_fixas as they were and
\* the result is that of the q_teste it was given.
C17_RegistosEResultante ==
    /\ []RegistosEResultante
    /\ [][chamada' = "calcular_forca_coulomb"
             => /\ posicao' = posicao
                /\ cargas' = cargas
                /\ forcas' = [i \in DOMAIN cargas |-> forca_par(q_teste', posicao, cargas[i])]]_vars

C17_Witness ==
    /\ chamada = "calcular_forca_coulomb"
    /\ Len(forcas) = 2
    /\ forcas[1].vetor # Zeros3
    /\ forcas[2].vetor = Zeros3
    /\ forca_resultante = forcas[1].vetor

\* C18: in every record of calcular_forca_coulomb 'magnitude' is the
\* Euclidean norm of 'vetor', also for test points closer than 0.01 m to the
\* charge.
C18_MagnitudeNorma ==
    chamada = "calcular_forca_coulomb"
        => \A i \in DOMAIN forcas :
              NormaQuadrada(forcas[i].vetor)
                 = RMul(forcas[i].magnitude, forcas[i].magnitude)

====
